---- MODULE Spec2Model ----
(***************************************************************************)
(* A model of QQuickCLContext (src/quickcl/qquickclcontext.cpp): the       *)
(* lifecycle of the three OpenCL handles held by QQuickCLContextPrivate,   *)
(* the vendor-matched platform selection of create(), the teardown on      *)
(* partial failure, buildProgram(), and the static toCLImageFormat().       *)
(*                                                                         *)
(* Native OpenCL / OpenGL calls are the environment: the outcome of each   *)
(* call is an input of the operation that makes it.  Handles are small     *)
(* positive integers, 0 is the null handle.  The i-th platform returned by *)
(* clGetPlatformIDs has handle i.                                          *)
(***************************************************************************)
EXTENDS Integers, Sequences, FiniteSets, TLC

(***************************************************************************)
(* Bounds of the model.                                                    *)
(***************************************************************************)
MaxPlatforms == 2      \* longest platform list clGetPlatformIDs reports
MaxContexts == 2       \* native contexts that can be allocated at the same time

NullHandle == 0        \* the 0 the constructor stores in platform, device, context

(***************************************************************************)
(* Strings are sequences of characters, so that strstr() and               *)
(* QByteArray::contains() are substring searches and nothing else.         *)
(***************************************************************************)
NUL == "\\0"

TokNVIDIA == <<"N","V","I","D","I","A">>
TokIntel == <<"I","n","t","e","l">>
TokATI == <<"A","T","I">>
TokAMD == <<"A","M","D">>

\* GL_VENDOR strings a current OpenGL context may report.  Index 0 stands
\* for glGetString() returning a null pointer.
VendorStrings ==
  << <<"N","V","I","D","I","A"," ","C","o","r","p","o","r","a","t","i","o","n">>,
     <<"I","n","t","e","l">>,
     <<"A","T","I"," ","T","e","c","h","n","o","l","o","g","i","e","s"," ","I","n","c",".">>,
     <<"I","n","t","e","l"," ","/"," ","N","V","I","D","I","A">> >>

\* CL_PLATFORM_NAME strings of installed platforms.
PlatformNameStrings ==
  << <<"N","V","I","D","I","A"," ","C","U","D","A">>,
     <<"I","n","t","e","l","(","R",")"," ","O","p","e","n","C","L">>,
     <<"A","M","D"," ","A","P","P">> >>

\* What the 1024-byte buffer of the selection loop holds after the name and
\* its terminating NUL.  QByteArray::resize() leaves the new bytes
\* uninitialized, so the tail is whatever the heap block held: zero bytes
\* (index 1) or stale bytes of an earlier string (index 2).
GarbageTails ==
  << <<>>,
     <<"N","V","I","D","I","A"," ","C","U","D","A">> >>

Vendors == 0..Len(VendorStrings)
NameIds == 1..Len(PlatformNameStrings)
TailIds == 1..Len(GarbageTails)

\* strstr(hay, needle) != NULL, QByteArray::contains(needle)
Contains(hay, needle) ==
  \E i \in 1..(Len(hay) - Len(needle) + 1) :
     SubSeq(hay, i, i + Len(needle) - 1) = needle

\* The bytes name.contains() searches for platform name nameId: all 1024
\* bytes of the buffer, i.e. the name, its NUL and the uninitialized tail.
NameBuffer(nameId, tailId) ==
  PlatformNameStrings[nameId] \o <<NUL>> \o GarbageTails[tailId]

VARIABLES
  os,          \* the build: "osx", "win" or "linux" (#if defined(Q_OS_...))
  glVendor,    \* GL_VENDOR of the OpenGL driver (index into VendorStrings, 0 = null)
  names,       \* CL_PLATFORM_NAME of each installed platform, in enumeration order
  d,           \* QQuickCLContextPrivate: [platform, device, context]
  alive,       \* FALSE once the destructor has run
  created,     \* TRUE iff a create() returned true and no destroy() ran since
  live,        \* the native contexts created and not yet released
  stray,       \* TRUE once clReleaseContext was called on a context not in live
  last,        \* the last call: [op, ok, val, sel, tail, calls]
  byteOrder,   \* the build: QSysInfo::ByteOrder
  image        \* the last toCLImageFormat() call: its argument and the
               \* cl_image_format it returned

vars == <<os, glVendor, names, d, alive, created, live, stray, last, byteOrder, image>>

\* What no member function of an instance writes.
env == <<os, glVendor, names, byteOrder, image>>

NullD == [platform |-> NullHandle, device |-> NullHandle, context |-> NullHandle]

\* One native call in the trace of an operation.
Call(fn, arg, res) == [fn |-> fn, arg |-> arg, res |-> res]

(***************************************************************************)
(* Variants of destroy() with one statement of lines 294-300 changed.      *)
(***************************************************************************)
\* line 300 (d->platform = 0) missing
DestroyOp_KeepPlatform(dd) ==
  [ d     |-> [platform |-> dd.platform, device |-> NullHandle, context |-> NullHandle],
    calls |-> IF dd.context # NullHandle
                THEN << Call("clReleaseContext", dd.context, 0) >>
                ELSE << >> ]

\* line 299 (d->device = 0) missing
DestroyOp_KeepDevice(dd) ==
  [ d     |-> [platform |-> NullHandle, device |-> dd.device, context |-> NullHandle],
    calls |-> IF dd.context # NullHandle
                THEN << Call("clReleaseContext", dd.context, 0) >>
                ELSE << >> ]

\* line 297 (d->context = 0) missing
DestroyOp_KeepContext(dd) ==
  [ d     |-> [platform |-> NullHandle, device |-> NullHandle, context |-> dd.context],
    calls |-> IF dd.context # NullHandle
                THEN << Call("clReleaseContext", dd.context, 0) >>
                ELSE << >> ]

\* the test of line 294 missing
DestroyOp_ReleaseAlways(dd) ==
  [ d     |-> [platform |-> NullHandle, device |-> NullHandle, context |-> NullHandle],
    calls |-> << Call("clReleaseContext", dd.context, 0) >> ]

(***************************************************************************)
(* destroy(), lines 291-301.                                               *)
(***************************************************************************)
DestroyOp(dd) ==
  [ d     |-> [platform |-> NullHandle, device |-> NullHandle, context |-> NullHandle],
    calls |-> IF dd.context # NullHandle
                THEN << Call("clReleaseContext", dd.context, 0) >>
                ELSE << >> ]

(***************************************************************************)
(* The vendor buckets of create(), lines 196-200.                          *)
(***************************************************************************)
VendorHas(vendor, tok) == vendor # 0 /\ Contains(VendorStrings[vendor], tok)

IsNV(vendor) == VendorHas(vendor, TokNVIDIA)

\* line 199 as the else branch of line 198: isIntel only when isNV is not set
IsIntel_UnlessNV(vendor) ==
  VendorHas(vendor, TokIntel) /\ ~VendorHas(vendor, TokNVIDIA)

IsIntel(vendor) == VendorHas(vendor, TokIntel)
IsAMD(vendor) == VendorHas(vendor, TokATI)

\* The if / else-if chain of the loop body, lines 207-212: does iteration
\* i assign d->platform = platformIds[i]?
Overrides(vendor, buf) ==
  \/ IsNV(vendor) /\ Contains(buf, TokNVIDIA)
  \/ IsIntel(vendor) /\ Contains(buf, TokIntel)
  \/ IsAMD(vendor) /\ Contains(buf, TokAMD)

\* Overrides on the buffer of a platform named nm with tail t.
OverridesAt ==
  [v \in Vendors, nm \in NameIds, t \in TailIds |-> Overrides(v, NameBuffer(nm, t))]

\* The loop of lines 202-213 from iteration i on, sel being d->platform.
RECURSIVE SelectFrom(_, _, _, _, _)
SelectFrom(i, sel, vendor, nms, tails) ==
  IF i > Len(nms) THEN sel
  ELSE SelectFrom(i + 1,
                  IF OverridesAt[vendor, nms[i], tails[i]] THEN i ELSE sel,
                  vendor, nms, tails)

\* Lines 195-214: d->platform = platformIds[0], then the loop.
SelectPlatform(vendor, nms, tails) == SelectFrom(1, 1, vendor, nms, tails)

\* The clGetPlatformInfo calls of the loop, one per platform.
InfoCalls(nms) == [i \in 1..Len(nms) |-> Call("clGetPlatformInfo", i, nms[i])]

(***************************************************************************)
(* Device resolution of create(), lines 262-282, on the context ctx just   *)
(* stored in d->context.  The device handle of a platform's GPU is the     *)
(* platform's handle.  down is what the failure branch does to the handles *)
(* (lines 268 and 278).                                                    *)
(***************************************************************************)
ResolveWith(osv, plat, ctx, in, down) ==
  LET good == [platform |-> plat, device |-> plat, context |-> ctx]
  IN IF osv = "osx"
       THEN IF in.interopOk
              THEN [d |-> good, ok |-> TRUE,
                    calls |-> << Call("clGetGLContextInfoAPPLE", ctx, 0) >>]
              ELSE [d |-> down.d, ok |-> FALSE,
                    calls |-> << Call("clGetGLContextInfoAPPLE", ctx, -1) >> \o down.calls]
       ELSE LET lookup == << Call("clGetExtensionFunctionAddress", 0,
                                  IF in.extAvail THEN 1 ELSE 0) >>
                query == IF in.extAvail
                           THEN << Call("clGetGLContextInfoKHR", plat,
                                        IF in.interopOk THEN 0 ELSE -1) >>
                           ELSE << >>
            IN IF in.extAvail /\ in.interopOk
                 THEN [d |-> good, ok |-> TRUE, calls |-> lookup \o query]
                 ELSE IF in.fallbackOk
                   THEN [d |-> good, ok |-> TRUE,
                         calls |-> lookup \o query
                                     \o << Call("clGetDeviceIDs", plat, 0) >>]
                   ELSE [d |-> down.d, ok |-> FALSE,
                         calls |-> lookup \o query
                                     \o << Call("clGetDeviceIDs", plat, -1) >>
                                     \o down.calls]

\* What create() holds right after line 255 succeeded.
Held(plat, ctx) == [platform |-> plat, device |-> NullHandle, context |-> ctx]

\* destroy() of lines 268 / 278 missing: return false with the context held
ResolveDevice_NoTeardown(osv, plat, ctx, in) ==
  ResolveWith(osv, plat, ctx, in, [d |-> Held(plat, ctx), calls |-> << >>])

\* lines 268 / 278 reset the handles without releasing the context
ResolveDevice_ResetOnly(osv, plat, ctx, in) ==
  ResolveWith(osv, plat, ctx, in, [d |-> NullD, calls |-> << >>])

\* the condition of line 273 dropped: clGetDeviceIDs runs after a successful
\* interop query too
ResolveDevice_AlwaysFallback(osv, plat, ctx, in) ==
  LET r == ResolveWith(osv, plat, ctx, in, DestroyOp(Held(plat, ctx)))
  IN IF osv # "osx" /\ in.extAvail /\ in.interopOk
       THEN [r EXCEPT !.calls = @ \o << Call("clGetDeviceIDs", plat, 0) >>]
       ELSE r

\* line 275 passing no place for the device: the fallback succeeds and
\* d->device stays null
ResolveDevice_FallbackStoresNothing(osv, plat, ctx, in) ==
  LET r == ResolveWith(osv, plat, ctx, in, DestroyOp(Held(plat, ctx)))
  IN IF r.ok /\ osv # "osx" /\ ~(in.extAvail /\ in.interopOk)
       THEN [r EXCEPT !.d = Held(plat, ctx)]
       ELSE r

ResolveDevice(osv, plat, ctx, in) ==
  ResolveWith(osv, plat, ctx, in, DestroyOp(Held(plat, ctx)))

(***************************************************************************)
(* create() from line 163 on, lines 163-286; first is what the destroy()   *)
(* of line 162 returned.  fresh is the handle clCreateContextFromType      *)
(* returns when it succeeds.  sel is the platform chosen at line 214 and   *)
(* tail the tail of the buffer its name was read into; both are 0 when the *)
(* call returns before.  rejectGLES: LibGLES makes the call return (lines  *)
(* 221-225).                                                               *)
(***************************************************************************)
CreateBody(first, osv, vendor, nms, in, fresh, rejectGLES) ==
  LET n     == Len(nms)
      gl    == << Call("currentContext", 0, IF in.glCurrent THEN 1 ELSE 0) >>
      fail(dv, sl, cs) ==
        [d |-> dv, ok |-> FALSE, sel |-> sl, tail |-> IF sl = 0 THEN 0 ELSE in.tails[sl],
         calls |-> first.calls \o gl \o cs]
      count == << Call("clGetPlatformIDs", 0, IF in.countErr THEN -1 ELSE n) >>
      ids   == << Call("clGetPlatformIDs", n, IF in.idsErr THEN -1 ELSE 0) >>
      plat  == SelectPlatform(vendor, nms, in.tails)
      picked == [first.d EXCEPT !.platform = plat]
      ctx   == IF in.ctxOk THEN fresh ELSE NullHandle
      make  == << Call("clCreateContextFromType", IF osv = "osx" THEN 0 ELSE plat, ctx) >>
      module == IF osv = "win"
                  THEN << Call("openGLModuleType", 0, IF in.angle THEN 1 ELSE 0) >>
                  ELSE << >>
      upto  == count \o ids \o InfoCalls(nms) \o module
      res   == ResolveDevice(osv, plat, ctx, in)
  IN IF ~in.glCurrent THEN fail(first.d, 0, << >>)
     ELSE IF in.countErr THEN fail(first.d, 0, count)
     ELSE IF n = 0 THEN fail(first.d, 0, count)
     ELSE IF in.idsErr THEN fail(first.d, 0, count \o ids)
     ELSE IF osv = "win" /\ in.angle /\ rejectGLES THEN fail(picked, plat, upto)
     ELSE IF ctx = NullHandle THEN fail(picked, plat, upto \o make)
     ELSE [d |-> res.d, ok |-> res.ok, sel |-> plat, tail |-> in.tails[plat],
           calls |-> first.calls \o gl \o upto \o make \o res.calls]

\* the return false of line 224 missing: the module type is read and ignored
CreateAfter_GLESNotRejected(first, osv, vendor, nms, in, fresh) ==
  CreateBody(first, osv, vendor, nms, in, fresh, FALSE)

CreateAfter(first, osv, vendor, nms, in, fresh) ==
  CreateBody(first, osv, vendor, nms, in, fresh, TRUE)

\* the null check of lines 165-169 done before the destroy() of line 162
CreateOp_GuardFirst(dd, osv, vendor, nms, in, fresh) ==
  IF ~in.glCurrent
    THEN CreateAfter([d |-> dd, calls |-> << >>], osv, vendor, nms, in, fresh)
    ELSE CreateAfter(DestroyOp(dd), osv, vendor, nms, in, fresh)

\* the destroy() of line 162 missing
CreateOp_NoDestroy(dd, osv, vendor, nms, in, fresh) ==
  CreateAfter([d |-> dd, calls |-> << >>], osv, vendor, nms, in, fresh)

(***************************************************************************)
(* create(), lines 158-286.                                                *)
(***************************************************************************)
CreateOp(dd, osv, vendor, nms, in, fresh) ==
  CreateAfter(DestroyOp(dd), osv, vendor, nms, in, fresh)

\* buildProgram() as it would be if the result of clBuildProgram were not tested.
BuildOp_IgnoreBuildError(dd, in, fresh) ==
  LET prog  == IF in.progOk THEN fresh ELSE NullHandle
      mk    == << Call("clCreateProgramWithSource", dd.context, prog) >>
      build == << Call("clBuildProgram", dd.device, IF in.buildOk THEN 0 ELSE -1) >>
  IN IF prog = NullHandle
       THEN [val |-> NullHandle, calls |-> mk]
       ELSE [val |-> prog, calls |-> mk \o build]

(***************************************************************************)
(* buildProgram(), lines 354-376.  fresh is the handle                     *)
(* clCreateProgramWithSource returns when it succeeds.  val is the         *)
(* returned cl_program.                                                    *)
(***************************************************************************)
BuildOp(dd, in, fresh) ==
  LET prog  == IF in.progOk THEN fresh ELSE NullHandle
      mk    == << Call("clCreateProgramWithSource", dd.context, prog) >>
      build == << Call("clBuildProgram", dd.device, IF in.buildOk THEN 0 ELSE -1) >>
      log   == << Call("clGetProgramBuildInfo", dd.device, 0) >>
  IN IF prog = NullHandle
       THEN [val |-> NullHandle, calls |-> mk]
       ELSE IF ~in.buildOk
         THEN [val |-> NullHandle, calls |-> mk \o build \o log]
         ELSE [val |-> prog, calls |-> mk \o build]

(***************************************************************************)
(* The outcomes of the native calls an operation makes, as one record.     *)
(* The outcome of a call the operation does not reach is left at FALSE.    *)
(***************************************************************************)
BaseIn(n) ==
  [ glCurrent  |-> TRUE,    \* QOpenGLContext::currentContext() is non-null
    countErr   |-> FALSE,   \* clGetPlatformIDs(0, 0, &n) fails
    idsErr     |-> FALSE,   \* clGetPlatformIDs(n, ids, 0) fails
    tails      |-> [i \in 1..n |-> 1],  \* uninitialized tail of each name buffer
    angle      |-> FALSE,   \* openGLModuleType() == LibGLES
    ctxOk      |-> FALSE,   \* clCreateContextFromType returns a context
    extAvail   |-> FALSE,   \* clGetExtensionFunctionAddress returns non-null
    interopOk  |-> FALSE,   \* the interop device query returns CL_SUCCESS
    fallbackOk |-> FALSE,   \* clGetDeviceIDs returns CL_SUCCESS
    progOk     |-> FALSE,   \* clCreateProgramWithSource returns a program
    buildOk    |-> FALSE ]  \* clBuildProgram returns CL_SUCCESS

NoIn == BaseIn(0)

\* The inputs of create() on a system with n platforms; room: the native
\* side can still hand out a context.
CreateInputs(osv, n, room) ==
  LET b == BaseIn(n)
  IN { [b EXCEPT !.glCurrent = FALSE], [b EXCEPT !.countErr = TRUE] }
     \cup
     ( IF n = 0 THEN {b}
       ELSE { [b EXCEPT !.idsErr = TRUE] }
            \cup
            { [b EXCEPT !.tails = t, !.angle = a, !.ctxOk = c, !.extAvail = e,
                        !.interopOk = q, !.fallbackOk = f] :
                <<t, a, c, e, q, f>> \in
                  { x \in [1..n -> TailIds] \X BOOLEAN \X BOOLEAN \X BOOLEAN
                            \X BOOLEAN \X BOOLEAN :
                      /\ x[2] => (osv = "win" /\ ~x[3])
                      /\ x[3] => room
                      /\ ~x[3] => (~x[4] /\ ~x[5] /\ ~x[6])
                      /\ osv = "osx" => (~x[4] /\ ~x[6])
                      /\ (osv # "osx" /\ ~x[4]) => ~x[5]
                      /\ (x[4] /\ x[5]) => ~x[6] } } )

\* clCreateProgramWithSource fails on a null context.
BuildInputs(valid) ==
  { [NoIn EXCEPT !.progOk = p, !.buildOk = b] :
      <<p, b>> \in { x \in BOOLEAN \X BOOLEAN : (x[1] => valid) /\ (x[2] => x[1]) } }

OSes == {"osx", "win", "linux"}

InputsOfCreate ==
  [o \in OSes, n \in 0..MaxPlatforms, room \in BOOLEAN |-> CreateInputs(o, n, room)]

(***************************************************************************)
(* The native side: what a trace of calls does to the set of allocated     *)
(* contexts.  clCreateContextFromType hands out the smallest handle not    *)
(* allocated.                                                              *)
(***************************************************************************)
Handles == 1..MaxContexts

FreshContext(lv) ==
  IF lv = Handles THEN NullHandle ELSE CHOOSE h \in Handles \ lv : \A g \in Handles \ lv : h <= g

IsContextEvent(c) ==
  \/ c.fn = "clReleaseContext"
  \/ c.fn = "clCreateContextFromType" /\ c.res # NullHandle

\* nat = [live, stray] after the context events ev, in order.
RECURSIVE NativeAfter(_, _)
NativeAfter(nat, ev) ==
  IF ev = << >> THEN nat
  ELSE LET c == Head(ev)
       IN NativeAfter(
            IF c.fn = "clReleaseContext"
              THEN [live |-> nat.live \ {c.arg}, stray |-> nat.stray \/ c.arg \notin nat.live]
              ELSE [live |-> nat.live \cup {c.res}, stray |-> nat.stray],
            Tail(ev))

Native(calls) ==
  NativeAfter([live |-> live, stray |-> stray], SelectSeq(calls, IsContextEvent))

\* What a caller and the native side see of a call: the operation, its
\* boolean and handle results, the platform create() chose with the tail of
\* its name buffer, and the native calls it made with their results.
Record(op, ok, val, sel, tail, calls) ==
  [op |-> op, ok |-> ok, val |-> val, sel |-> sel, tail |-> tail, calls |-> calls]

\* The handle clCreateProgramWithSource returns when it succeeds.
ProgramHandle == 1

(***************************************************************************)
(* toCLImageFormat(), lines 403-459.  The enumerators of QImage::Format    *)
(* are written by name; "NImageFormats" stands for a value that is not a   *)
(* pixel format at all.  The channel orders and channel data types are the *)
(* values of cl.h.                                                         *)
(***************************************************************************)
QImageFormats ==
  { "Format_Invalid", "Format_Mono", "Format_MonoLSB", "Format_Indexed8",
    "Format_RGB32", "Format_ARGB32", "Format_ARGB32_Premultiplied",
    "Format_RGB16", "Format_ARGB8565_Premultiplied", "Format_RGB666",
    "Format_ARGB6666_Premultiplied", "Format_RGB555",
    "Format_ARGB8555_Premultiplied", "Format_RGB888", "Format_RGB444",
    "Format_ARGB4444_Premultiplied", "Format_RGBX8888", "Format_RGBA8888",
    "Format_RGBA8888_Premultiplied", "Format_BGR30",
    "Format_A2BGR30_Premultiplied", "Format_RGB30",
    "Format_A2RGB30_Premultiplied", "Format_Alpha8", "Format_Grayscale8",
    "NImageFormats" }

ByteOrders == { "LittleEndian", "BigEndian" }

CL_A == 4273
CL_RGB == 4276
CL_RGBA == 4277
CL_BGRA == 4278
CL_ARGB == 4279
CL_RGBx == 4284
CL_UNORM_INT8 == 4306
CL_UNORM_SHORT_565 == 4308
CL_UNORM_SHORT_555 == 4309

ImageFormat(order, type) ==
  [image_channel_order |-> order, image_channel_data_type |-> type]

\* lines 416-422 without the test of QSysInfo::ByteOrder
toCLImageFormat_LittleEndianOnly(format, order) ==
  CASE format = "Format_Indexed8" -> ImageFormat(CL_A, CL_UNORM_INT8)
    [] format \in { "Format_RGB32", "Format_ARGB32", "Format_ARGB32_Premultiplied" }
         -> ImageFormat(CL_BGRA, CL_UNORM_INT8)
    [] format = "Format_RGB16" -> ImageFormat(CL_RGB, CL_UNORM_SHORT_565)
    [] format = "Format_RGB555" -> ImageFormat(CL_RGB, CL_UNORM_SHORT_555)
    [] format = "Format_RGB888" -> ImageFormat(CL_RGB, CL_UNORM_INT8)
    [] format = "Format_RGBX8888" -> ImageFormat(CL_RGBx, CL_UNORM_INT8)
    [] format \in { "Format_RGBA8888", "Format_RGBA8888_Premultiplied" }
         -> ImageFormat(CL_RGBA, CL_UNORM_INT8)
    [] OTHER -> ImageFormat(0, 0)

\* The switch of lines 407-456; order is QSysInfo::ByteOrder.
toCLImageFormat(format, order) ==
  CASE format = "Format_Indexed8" -> ImageFormat(CL_A, CL_UNORM_INT8)
    [] format \in { "Format_RGB32", "Format_ARGB32", "Format_ARGB32_Premultiplied" }
         -> IF order = "LittleEndian"
              THEN ImageFormat(CL_BGRA, CL_UNORM_INT8)
              ELSE ImageFormat(CL_ARGB, CL_UNORM_INT8)
    [] format = "Format_RGB16" -> ImageFormat(CL_RGB, CL_UNORM_SHORT_565)
    [] format = "Format_RGB555" -> ImageFormat(CL_RGB, CL_UNORM_SHORT_555)
    [] format = "Format_RGB888" -> ImageFormat(CL_RGB, CL_UNORM_INT8)
    [] format = "Format_RGBX8888" -> ImageFormat(CL_RGBx, CL_UNORM_INT8)
    [] format \in { "Format_RGBA8888", "Format_RGBA8888_Premultiplied" }
         -> ImageFormat(CL_RGBA, CL_UNORM_INT8)
    [] OTHER -> ImageFormat(0, 0)

\* No call of toCLImageFormat() yet.
NoImage == [format |-> "", fmt |-> ImageFormat(0, 0)]

(***************************************************************************)
(* The state after construction (lines 63-67, 79-82), on any system.       *)
(***************************************************************************)
Init ==
  /\ os \in OSes
  /\ glVendor \in Vendors
  /\ names \in UNION { [1..n -> NameIds] : n \in 0..MaxPlatforms }
  /\ d = NullD
  /\ alive = TRUE
  /\ created = FALSE
  /\ live = {}
  /\ stray = FALSE
  /\ last = Record("new", FALSE, 0, 0, 0, << >>)
  /\ byteOrder = "LittleEndian"
  /\ image = NoImage

Create ==
  /\ alive
  /\ \E in \in InputsOfCreate[os, Len(names), live # Handles \/ d.context # NullHandle] :
     \E r \in { CreateOp(d, os, glVendor, names, in, FreshContext(live \ {d.context})) } :
          /\ d' = r.d
          /\ created' = r.ok
          /\ \E nat \in { Native(r.calls) } : live' = nat.live /\ stray' = nat.stray
          /\ last' = Record("create", r.ok, 0, r.sel, r.tail, r.calls)
  /\ UNCHANGED <<env, alive>>

Teardown(op) ==
  \E r \in { DestroyOp(d) } :
     /\ d' = r.d
     /\ created' = FALSE
     /\ \E nat \in { Native(r.calls) } : live' = nat.live /\ stray' = nat.stray
     /\ last' = Record(op, FALSE, 0, 0, 0, r.calls)

Destroy ==
  /\ alive
  /\ Teardown("destroy")
  /\ UNCHANGED <<env, alive>>

\* ~QQuickCLContext(), lines 88-92: destroy(), then the instance is gone.
Destructor ==
  /\ alive
  /\ Teardown("dtor")
  /\ alive' = FALSE
  /\ UNCHANGED env

\* buildProgram() as it would be if a failed build dropped the handles
BuildProgram_ForgetOnFailure ==
  /\ alive
  /\ \E in \in BuildInputs(d.context # NullHandle) :
     \E r \in { BuildOp(d, in, ProgramHandle) } :
          /\ last' = Record("buildProgram", r.val # NullHandle, r.val, 0, 0, r.calls)
          /\ d' = IF r.val = NullHandle THEN NullD ELSE d
  /\ UNCHANGED <<env, alive, created, live, stray>>

BuildProgram ==
  /\ alive
  /\ \E in \in BuildInputs(d.context # NullHandle) :
     \E r \in { BuildOp(d, in, ProgramHandle) } :
          last' = Record("buildProgram", r.val # NullHandle, r.val, 0, 0, r.calls)
  /\ UNCHANGED <<env, d, alive, created, live, stray>>

\* isValid(), platform(), device(), context(): lines 97-143.
Getter(op, ok, val) ==
  /\ alive
  /\ last' = Record(op, ok, val, 0, 0, << >>)
  /\ UNCHANGED <<env, d, alive, created, live, stray>>

IsValid == Getter("isValid", d.context # NullHandle, 0)
Platform == Getter("platform", FALSE, d.platform)
Device == Getter("device", FALSE, d.device)
Context == Getter("context", FALSE, d.context)

\* platformName(), lines 313-319: the name of platform(), as an index into
\* PlatformNameStrings; 0 is the empty string the zero-filled buffer gives
\* when the query writes nothing.
PlatformName ==
  /\ alive
  /\ last' = Record("platformName", FALSE,
                    IF d.platform # NullHandle THEN names[d.platform] ELSE 0, 0, 0,
                    << Call("clGetPlatformInfo", d.platform,
                            IF d.platform # NullHandle THEN names[d.platform] ELSE -1) >>)
  /\ UNCHANGED <<env, d, alive, created, live, stray>>

\* deviceExtensions(), lines 331-337: the extension list of device(), named
\* by the device; 0 is the empty string.
DeviceExtensions ==
  /\ alive
  /\ last' = Record("deviceExtensions", FALSE, d.device, 0, 0,
                    << Call("clGetDeviceInfo", d.device,
                            IF d.device # NullHandle THEN 0 ELSE -1) >>)
  /\ UNCHANGED <<env, d, alive, created, live, stray>>

Next ==
  \/ Create
  \/ Destroy
  \/ Destructor
  \/ BuildProgram
  \/ IsValid
  \/ Platform
  \/ Device
  \/ Context
  \/ PlatformName
  \/ DeviceExtensions

Spec == Init /\ [][Next]_vars

(***************************************************************************)
(* toCLImageFormat() is static and reads nothing of an instance: it is     *)
(* checked on its own, over every format and both byte orders.             *)
(***************************************************************************)
InitImage ==
  /\ os \in OSes
  /\ glVendor = 0
  /\ names = << >>
  /\ d = NullD
  /\ alive = TRUE
  /\ created = FALSE
  /\ live = {}
  /\ stray = FALSE
  /\ last = Record("new", FALSE, 0, 0, 0, << >>)
  /\ byteOrder \in ByteOrders
  /\ image = NoImage

ToCLImageFormat ==
  /\ \E format \in QImageFormats :
       image' = [format |-> format, fmt |-> toCLImageFormat(format, byteOrder)]
  /\ UNCHANGED <<os, glVendor, names, byteOrder, d, alive, created, live, stray, last>>

NextImage == ToCLImageFormat

SpecImage == InitImage /\ [][NextImage]_vars

(***************************************************************************)
(* Reading the trace of the last call.                                     *)
(***************************************************************************)
Calls == { last.calls[i] : i \in 1..Len(last.calls) }

Called(fn) == { c \in Calls : c.fn = fn }

IsValidOf(dd) == dd.context # NullHandle

\* create() found no current OpenGL context (line 166).
NoGL(rec) == \E i \in 1..Len(rec.calls) :
                rec.calls[i].fn = "currentContext" /\ rec.calls[i].res = 0

\* The contexts the last call created, and those it released.
MadeBy(rec) == { rec.calls[i].res : i \in { j \in 1..Len(rec.calls) :
                   /\ rec.calls[j].fn = "clCreateContextFromType"
                   /\ rec.calls[j].res # NullHandle } }

ReleasedBy(rec) == { rec.calls[i].arg : i \in { j \in 1..Len(rec.calls) :
                       rec.calls[j].fn = "clReleaseContext" } }

\* Device resolution failed (line 266, or line 276 after the interop query
\* was unavailable or failed).
DeviceResolutionFailed ==
  \/ \E c \in Called("clGetGLContextInfoAPPLE") : c.res # 0
  \/ /\ \E c \in Called("clGetDeviceIDs") : c.res # 0
     /\ \/ \E c \in Called("clGetExtensionFunctionAddress") : c.res = 0
        \/ \E c \in Called("clGetGLContextInfoKHR") : c.res # 0

\* Platform enumeration reported an error or zero platforms (lines 174-194).
EnumerationFailed ==
  \E c \in Called("clGetPlatformIDs") : c.res = -1 \/ (c.arg = 0 /\ c.res = 0)

(***************************************************************************)
(* C1: in every state between calls, whenever context is null, platform    *)
(* and device are null too, also after a create() that returned false      *)
(* because context creation failed or the backend was rejected.            *)
(* The code returns at lines 224 and 258 with d->platform set at 195-212.  *)
(***************************************************************************)
C1_NoPartialState ==
  d.context = NullHandle => (d.platform = NullHandle /\ d.device = NullHandle)

(***************************************************************************)
(* C2: right after any destroy(), explicit or run by the destructor,       *)
(* isValid() is false and platform, device and context are all null.       *)
(***************************************************************************)
C2_AfterDestroyAllNull ==
  last.op \in {"destroy", "dtor"} =>
    (~IsValidOf(d) /\ d.platform = NullHandle /\ d.device = NullHandle
       /\ d.context = NullHandle)

\* the destructor ran on a valid instance whose platform a create() chose
C2_Witness ==
  last.op = "dtor" /\ ReleasedBy(last) # {} /\ ~alive /\ d = NullD

(***************************************************************************)
(* C3, as claimed: create() with no current graphics context returns false *)
(* and changes nothing: platform, device and context are as before the     *)
(* call, whatever the prior state, and no context is released or created.  *)
(***************************************************************************)
C3_NoStateChange ==
  [][ (last'.op = "create" /\ NoGL(last') /\ (d = NullD \/ IsValidOf(d))) =>
        (~last'.ok /\ d' = d /\ ReleasedBy(last') = {} /\ MadeBy(last') = {}) ]_vars

(***************************************************************************)
(* C3, amended: create() with no current graphics context returns false,   *)
(* creates no native context and leaves platform, device and context all   *)
(* null; it releases the context the instance held (the destroy() of line  *)
(* 162 runs first), so only an all-null instance is left unchanged.        *)
(***************************************************************************)
C3_FalseAndAllNull ==
  [][ (last'.op = "create" /\ NoGL(last')) =>
        /\ ~last'.ok
        /\ d' = NullD
        /\ MadeBy(last') = {}
        /\ ReleasedBy(last') = { d.context } \ { NullHandle }
        /\ (d = NullD => d' = d) ]_vars

\* create() without a current context on a valid instance
C3_Witness ==
  last.op = "create" /\ NoGL(last) /\ ReleasedBy(last) # {} /\ d = NullD

(***************************************************************************)
(* C4: if context creation succeeds and device resolution then fails,      *)
(* create() returns false, the context just created is released, and       *)
(* context, device and platform are all null afterwards.                   *)
(***************************************************************************)
C4_TeardownOnDeviceFailure ==
  (last.op = "create" /\ MadeBy(last) # {} /\ DeviceResolutionFailed) =>
    /\ ~last.ok
    /\ MadeBy(last) \subseteq ReleasedBy(last)
    /\ MadeBy(last) \cap live = {}
    /\ d = NullD

\* the interop query failed and the fallback enumeration failed too
C4_Witness ==
  /\ last.op = "create" /\ MadeBy(last) # {}
  /\ \E c \in Called("clGetGLContextInfoKHR") : c.res # 0
  /\ \E c \in Called("clGetDeviceIDs") : c.res # 0

(***************************************************************************)
(* C5: every native context created is released exactly once: no release   *)
(* hits a context that is not allocated (released before, or never         *)
(* created), and once the destructor has run no context is left allocated. *)
(***************************************************************************)
C5_ReleasedExactlyOnce ==
  /\ ~stray
  /\ ~alive => live = {}

\* the destructor released the context a create() had left
C5_Witness ==
  ~alive /\ ReleasedBy(last) # {} /\ live = {} /\ ~stray

(***************************************************************************)
(* C6: between calls context is non-null iff a create() returned true and  *)
(* no destroy() ran since; create() returns true exactly when isValid()    *)
(* holds right after it.                                                   *)
(***************************************************************************)
C6_ContextIffCreated ==
  /\ IsValidOf(d) <=> created
  /\ last.op = "create" => (last.ok <=> IsValidOf(d))

\* a create() that made a context and still returned false
C6_Witness ==
  last.op = "create" /\ MadeBy(last) # {} /\ ~last.ok /\ ~IsValidOf(d)

(***************************************************************************)
(* C7: create() on a valid instance behaves as destroy() followed by       *)
(* create(): with the same graphics context, platform list and native      *)
(* outcomes, both give the same return value, the same platform, device    *)
(* and context, and the same sequence of native calls.                     *)
(***************************************************************************)
C7_RecreateIsDestroyThenCreate ==
  (alive /\ IsValidOf(d)) =>
    \A in \in InputsOfCreate[os, Len(names), TRUE] :
      \E fresh \in { FreshContext(live \ {d.context}) } :
      \E x \in { DestroyOp(d) } :
      \E one \in { CreateOp(d, os, glVendor, names, in, fresh) } :
      \E two \in { CreateOp(x.d, os, glVendor, names, in, fresh) } :
        /\ one.ok = two.ok
        /\ one.d = two.d
        /\ one.sel = two.sel
        /\ one.tail = two.tail
        /\ one.calls = x.calls \o two.calls

\* a create() on a valid instance that succeeded again
C7_Witness ==
  last.op = "create" /\ ReleasedBy(last) # {} /\ last.ok /\ IsValidOf(d)

(***************************************************************************)
(* C8: the platform create() uses is the last platform, in enumeration     *)
(* order, whose name contains the token of a flagged vendor bucket; with   *)
(* exactly one such platform it is that one; with none, or with no bucket  *)
(* flagged, it is the first platform.                                      *)
(* The code searches the whole 1024-byte buffer of line 204, whose bytes   *)
(* after the name are uninitialized.                                       *)
(***************************************************************************)
Buckets == { <<TokNVIDIA, TokNVIDIA>>, <<TokIntel, TokIntel>>, <<TokATI, TokAMD>> }

NameMatches(vendor, nm) ==
  \E b \in Buckets :
     VendorHas(vendor, b[1]) /\ Contains(PlatformNameStrings[nm], b[2])

Matching == { i \in 1..Len(names) : NameMatches(glVendor, names[i]) }

C8_LastMatchingPlatform ==
  (last.op = "create" /\ last.sel # 0) =>
    /\ Matching # {} => (last.sel \in Matching /\ \A i \in Matching : i <= last.sel)
    /\ (\E i \in Matching : Matching = {i}) => Matching = {last.sel}
    /\ Matching = {} => last.sel = 1

(***************************************************************************)
(* C9: create() returns false when platform enumeration reports an error   *)
(* (count query or id query) or zero platforms; no context creation is     *)
(* attempted and platform, device and context are left all null.           *)
(***************************************************************************)
C9_EnumerationFailure ==
  (last.op = "create" /\ EnumerationFailed) =>
    /\ ~last.ok
    /\ Called("clCreateContextFromType") = {}
    /\ d = NullD

\* the id query failed in a create() on a valid instance
C9_Witness ==
  /\ last.op = "create" /\ ReleasedBy(last) # {}
  /\ \E c \in Called("clGetPlatformIDs") : c.arg > 0 /\ c.res = -1

(***************************************************************************)
(* C10: destroy() is idempotent: on handles that are all null it makes no  *)
(* native release call and leaves them all null, so destroy() twice gives  *)
(* the state and the native calls of destroy() once.                       *)
(***************************************************************************)
C10_DestroyIdempotent ==
  \E a \in { DestroyOp(d) } :
  \E b \in { DestroyOp(a.d) } :
    /\ b.d = a.d
    /\ a.calls \o b.calls = a.calls
    /\ d = NullD => (a.calls = << >> /\ a.d = d)

\* a destroy() that found nothing to release
C10_Witness ==
  last.op = "destroy" /\ last.calls = << >> /\ d = NullD /\ live = {}

(***************************************************************************)
(* C11: buildProgram() returns null whenever the creation of the native    *)
(* program fails (as it does on an invalid instance, whose context is      *)
(* null) or the build of the program fails, and it returns the non-null    *)
(* handle of the created program exactly when both succeed.                *)
(***************************************************************************)
ProgramsMade == { c.res : c \in { x \in Called("clCreateProgramWithSource") :
                                   x.res # NullHandle } }

BuildSucceeded == \E c \in Called("clBuildProgram") : c.res = 0

C11_BuildProgramResult ==
  last.op = "buildProgram" =>
    /\ Called("clCreateProgramWithSource") # {}
    /\ (\E c \in Called("clCreateProgramWithSource") : c.arg = NullHandle)
          => last.val = NullHandle
    /\ (ProgramsMade = {} \/ ~BuildSucceeded) => last.val = NullHandle
    /\ (ProgramsMade # {} /\ BuildSucceeded) => last.val \in ProgramsMade
    /\ last.ok = (last.val # NullHandle)

\* A program was created on a valid instance, its build failed, null came back.
C11_Witness ==
  /\ last.op = "buildProgram"
  /\ ProgramsMade # {}
  /\ ~BuildSucceeded
  /\ last.val = NullHandle

(***************************************************************************)
(* C12: toCLImageFormat() maps each recognized image format to exactly the *)
(* pair of the table: Indexed8 to (A, UNORM_INT8); RGB32, ARGB32 and       *)
(* ARGB32_Premultiplied to (BGRA, UNORM_INT8) on a little-endian host and  *)
(* (ARGB, UNORM_INT8) on a big-endian host; RGB16 to (RGB,                 *)
(* UNORM_SHORT_565); RGB555 to (RGB, UNORM_SHORT_555); RGB888 to (RGB,     *)
(* UNORM_INT8); RGBX8888 to (RGBx, UNORM_INT8); RGBA8888 and               *)
(* RGBA8888_Premultiplied to (RGBA, UNORM_INT8); every other value to the  *)
(* pair (0, 0).                                                            *)
(***************************************************************************)
FormatTable ==
  { <<"Format_Indexed8", "LittleEndian", CL_A, CL_UNORM_INT8>>,
    <<"Format_Indexed8", "BigEndian", CL_A, CL_UNORM_INT8>>,
    <<"Format_RGB32", "LittleEndian", CL_BGRA, CL_UNORM_INT8>>,
    <<"Format_ARGB32", "LittleEndian", CL_BGRA, CL_UNORM_INT8>>,
    <<"Format_ARGB32_Premultiplied", "LittleEndian", CL_BGRA, CL_UNORM_INT8>>,
    <<"Format_RGB32", "BigEndian", CL_ARGB, CL_UNORM_INT8>>,
    <<"Format_ARGB32", "BigEndian", CL_ARGB, CL_UNORM_INT8>>,
    <<"Format_ARGB32_Premultiplied", "BigEndian", CL_ARGB, CL_UNORM_INT8>>,
    <<"Format_RGB16", "LittleEndian", CL_RGB, CL_UNORM_SHORT_565>>,
    <<"Format_RGB16", "BigEndian", CL_RGB, CL_UNORM_SHORT_565>>,
    <<"Format_RGB555", "LittleEndian", CL_RGB, CL_UNORM_SHORT_555>>,
    <<"Format_RGB555", "BigEndian", CL_RGB, CL_UNORM_SHORT_555>>,
    <<"Format_RGB888", "LittleEndian", CL_RGB, CL_UNORM_INT8>>,
    <<"Format_RGB888", "BigEndian", CL_RGB, CL_UNORM_INT8>>,
    <<"Format_RGBX8888", "LittleEndian", CL_RGBx, CL_UNORM_INT8>>,
    <<"Format_RGBX8888", "BigEndian", CL_RGBx, CL_UNORM_INT8>>,
    <<"Format_RGBA8888", "LittleEndian", CL_RGBA, CL_UNORM_INT8>>,
    <<"Format_RGBA8888", "BigEndian", CL_RGBA, CL_UNORM_INT8>>,
    <<"Format_RGBA8888_Premultiplied", "LittleEndian", CL_RGBA, CL_UNORM_INT8>>,
    <<"Format_RGBA8888_Premultiplied", "BigEndian", CL_RGBA, CL_UNORM_INT8>> }

C12_FormatTable ==
  image.format # "" =>
    LET rows == { r \in FormatTable : r[1] = image.format /\ r[2] = byteOrder }
    IN IF rows = {}
         THEN image.fmt = ImageFormat(0, 0)
         ELSE \A r \in rows : image.fmt = ImageFormat(r[3], r[4])

\* A 32-bit format converted on a big-endian host.
C12_Witness ==
  /\ image.format = "Format_ARGB32_Premultiplied"
  /\ byteOrder = "BigEndian"
  /\ image.fmt = ImageFormat(CL_ARGB, CL_UNORM_INT8)

(***************************************************************************)
(* C13: one instance owns at most one native context.  In create() on a    *)
(* valid instance the old context is released before the platforms are     *)
(* enumerated and before the new context is created.  At every point the   *)
(* number of contexts created and not yet released is at most one, and it  *)
(* is one exactly when the context handle is non-null.                     *)
(***************************************************************************)
\* The change of the number of unreleased contexts made by call c.
Delta(c) ==
  IF c.fn = "clCreateContextFromType" /\ c.res # NullHandle THEN 1
  ELSE IF c.fn = "clReleaseContext" THEN -1
  ELSE 0

RECURSIVE SumDelta(_, _)
SumDelta(calls, from) ==
  IF from > Len(calls) THEN 0 ELSE Delta(calls[from]) + SumDelta(calls, from + 1)

\* The number of unreleased contexts just before call k of the last
\* operation (k = Len + 1: when it returned).
UnreleasedBefore(k) == Cardinality(live) - SumDelta(last.calls, k)

C13_AtMostOneContext ==
  /\ ~stray
  /\ live = {d.context} \ {NullHandle}
  /\ \A k \in 1..(Len(last.calls) + 1) : UnreleasedBefore(k) \in {0, 1}
  /\ last.op = "create" =>
        \A k \in 1..Len(last.calls) :
           last.calls[k].fn \in {"clGetPlatformIDs", "clCreateContextFromType"}
             => UnreleasedBefore(k) = 0

\* create() on a valid instance released the old context first and holds
\* the new one.
C13_Witness ==
  /\ last.op = "create"
  /\ last.ok
  /\ Len(last.calls) > 0
  /\ last.calls[1].fn = "clReleaseContext"
  /\ Called("clGetPlatformIDs") # {}
  /\ live = {d.context}

(***************************************************************************)
(* C14: on the non-Apple branches, once the context is created, the        *)
(* fallback device enumeration clGetDeviceIDs is invoked if and only if    *)
(* the interop extension function is unavailable or the interop query      *)
(* fails.  When the interop query succeeds the fallback is not invoked and *)
(* create() returns true.  create() fails at this step only when the       *)
(* fallback itself fails.                                                  *)
(***************************************************************************)
ExtUnavailable == \E c \in Called("clGetExtensionFunctionAddress") : c.res = 0

InteropFailed == \E c \in Called("clGetGLContextInfoKHR") : c.res # 0

InteropSucceeded == \E c \in Called("clGetGLContextInfoKHR") : c.res = 0

FallbackFailed == \E c \in Called("clGetDeviceIDs") : c.res # 0

C14_FallbackIffInteropUnusable ==
  (last.op = "create" /\ os # "osx" /\ MadeBy(last) # {}) =>
    /\ Called("clGetExtensionFunctionAddress") # {}
    /\ (Called("clGetDeviceIDs") # {}) <=> (ExtUnavailable \/ InteropFailed)
    /\ InteropSucceeded => (Called("clGetDeviceIDs") = {} /\ last.ok)
    /\ ~last.ok <=> FallbackFailed

\* The interop query failed, the fallback found the device, create() is true.
C14_Witness ==
  /\ last.op = "create"
  /\ os # "osx"
  /\ InteropFailed
  /\ \E c \in Called("clGetDeviceIDs") : c.res = 0
  /\ last.ok

(***************************************************************************)
(* C15: in create(), for every graphics vendor string at most one of the   *)
(* three vendor-bucket flags (NVIDIA, Intel, AMD/ATI) is set, so that the  *)
(* platforms of at most one vendor compete for selection, also for a       *)
(* vendor string that contains the tokens of two buckets.                  *)
(***************************************************************************)
\* The flags of lines 198-200 that are set for the GL_VENDOR of the system.
FlagsSet ==
  { f \in {"isNV", "isIntel", "isAMD"} :
      \/ f = "isNV" /\ IsNV(glVendor)
      \/ f = "isIntel" /\ IsIntel(glVendor)
      \/ f = "isAMD" /\ IsAMD(glVendor) }

\* The buckets whose flag is set and that have a platform installed.
Competing ==
  { b \in Buckets : /\ VendorHas(glVendor, b[1])
                    /\ \E i \in 1..Len(names) :
                          Contains(PlatformNameStrings[names[i]], b[2]) }

C15_AtMostOneBucket ==
  (last.op = "create" /\ last.sel # 0) =>
    /\ Cardinality(FlagsSet) <= 1
    /\ Cardinality(Competing) <= 1

\* C15 as the code has it: each of the three flags is set exactly when the
\* vendor string is non-null and contains the token of its bucket, the
\* three independently of each other, so that at most one is set only when
\* the vendor string has the token of at most one bucket; and the platforms
\* of every bucket whose token the vendor string contains compete: no
\* platform enumerated after the selected one has a name with the token of
\* such a bucket.
TokensInVendor ==
  { f \in {"isNV", "isIntel", "isAMD"} :
      /\ glVendor # 0
      /\ \/ f = "isNV" /\ Contains(VendorStrings[glVendor], TokNVIDIA)
         \/ f = "isIntel" /\ Contains(VendorStrings[glVendor], TokIntel)
         \/ f = "isAMD" /\ Contains(VendorStrings[glVendor], TokATI) }

C15_FlagsIndependent ==
  (last.op = "create" /\ last.sel # 0) =>
    /\ FlagsSet = TokensInVendor
    /\ \A i \in 1..Len(names) : i > last.sel => i \notin Matching

\* Two flags are set, a platform of each of the two vendors is installed,
\* and the later one was selected over the earlier one.
C15_Witness ==
  /\ last.op = "create"
  /\ last.sel = 2
  /\ Cardinality(FlagsSet) = 2
  /\ Cardinality(Competing) = 2
  /\ Matching = {1, 2}
  /\ last.tail = 1

(***************************************************************************)
(* C16: on the Windows branch, which checks the type of the OpenGL         *)
(* backend, when the backend is the API-translation layer (LibGLES)        *)
(* create() returns false before any call that creates a native context,   *)
(* and no native context is created or held by the instance afterwards.    *)
(***************************************************************************)
BackendIsGLES == \E c \in Called("openGLModuleType") : c.res = 1

C16_TranslationLayerRejected ==
  (last.op = "create" /\ BackendIsGLES) =>
    /\ ~last.ok
    /\ Called("clCreateContextFromType") = {}
    /\ last.calls[Len(last.calls)].fn = "openGLModuleType"
    /\ d.context = NullHandle
    /\ live = {}

\* create() on a valid instance under ANGLE: the old context is gone and no
\* new one was asked for.
C16_Witness ==
  /\ last.op = "create"
  /\ os = "win"
  /\ BackendIsGLES
  /\ ReleasedBy(last) # {}
  /\ ~last.ok

(***************************************************************************)
(* C17: only create(), destroy() and the destructor change the handles of  *)
(* the instance.  isValid(), platform(), device(), context(),              *)
(* platformName(), deviceExtensions() and buildProgram() leave platform,   *)
(* device and context unchanged for every outcome, so a failed             *)
(* buildProgram() on a valid instance leaves it valid; and the programs    *)
(* buildProgram() returned are not tracked: a later destroy() releases     *)
(* contexts only.                                                          *)
(***************************************************************************)
Readers == { "isValid", "platform", "device", "context", "platformName",
             "deviceExtensions", "buildProgram" }

C17_OnlyLifecycleChangesHandles ==
  [][ /\ last'.op \in Readers =>
           /\ d' = d
           /\ live' = live
           /\ created' = created
           /\ IsValidOf(d) => IsValidOf(d')
      /\ last'.op \in {"destroy", "dtor"} =>
           \A i \in 1..Len(last'.calls) : last'.calls[i].fn = "clReleaseContext"
    ]_vars

\* A build failed on a valid instance, which is still valid.
C17_Witness ==
  /\ last.op = "buildProgram"
  /\ ProgramsMade # {}
  /\ last.val = NullHandle
  /\ IsValidOf(d)
  /\ live = {d.context}

(***************************************************************************)
(* C18: every native program created inside buildProgram() is, by the time *)
(* buildProgram() returns, either returned to the caller or released: when *)
(* the build fails and null is returned, the program created for the call  *)
(* does not remain allocated and unreferenced.                             *)
(***************************************************************************)
ProgramsReleased == { c.arg : c \in Called("clReleaseProgram") }

C18_ProgramReturnedOrReleased ==
  last.op = "buildProgram" =>
    \A p \in ProgramsMade : last.val = p \/ p \in ProgramsReleased

(***************************************************************************)
(* C19: whenever create() returns true the instance is fully valid:        *)
(* context, platform and device are all non-null and platform is one of    *)
(* the platforms the enumeration of that call returned; and the three keep *)
(* these values until the next create() or destroy().                      *)
(***************************************************************************)
\* The platforms the last call enumerated (line 190).
Enumerated ==
  UNION { 1..c.arg : c \in { x \in Called("clGetPlatformIDs") :
                               x.arg # 0 /\ x.res = 0 } }

FullyValid(dd) ==
  /\ dd.context # NullHandle
  /\ dd.platform # NullHandle
  /\ dd.device # NullHandle

====
